---------------------------- MODULE Spec2Model ----------------------------
(***************************************************************************)
(* Stock-news monitor (src/main.py): one run of the script.                *)
(*                                                                         *)
(*   get_stock_data -> calculate_price_difference -> threshold gate ->     *)
(*   get_news_articles -> format_news_articles -> send_sms_messages        *)
(*                                                                         *)
(* The three providers (quote, news, messaging) are the environment: each  *)
(* action draws the provider's answer from a bounded set.  An exception    *)
(* that no handler of main.py catches ends the run in pc = "Crashed"       *)
(* (the interpreter prints a traceback and exits with status 1).           *)
(*                                                                         *)
(* Abstractions, all of values and none of control flow:                   *)
(*  - a closing price "4. close" is an integer (whole currency units);     *)
(*    a bar is a record saying whether float() accepts the text, and the   *)
(*    number it parses to.  For the prices in Closes the exact quotient    *)
(*    below equals the double-precision result of main.py line 66.         *)
(*  - the emojis of line 63 are the strings "UP" and "DOWN"; the           *)
(*    Portuguese placeholders of lines 110-111 are written without         *)
(*    diacritics.                                                          *)
(*  - JSON null is the value None; str(None) is "None".                    *)
(*  - twilio's Client(...) constructor (line 127) is taken to return.      *)
(***************************************************************************)
EXTENDS Integers, Sequences, FiniteSets, TLC

(* ------------------------------ bounds --------------------------------- *)

\* Longest daily series the quote provider returns in the model.
MaxBars == 2

\* Most articles the news provider returns in the model (more than the 3 kept).
MaxProvided == 4

(* --------------------------- program constants ------------------------- *)

STOCK_NAME == "TSLA"

PERCENTAGE_THRESHOLD == 1

\* Default of get_news_articles' num_articles parameter.
num_articles == 3

HeadlinePlaceholder == "Titulo nao disponivel"

BriefPlaceholder == "Descricao nao disponivel"

Up == "UP"

Down == "DOWN"

\* exit() with no argument raises SystemExit(None): status 0.
ExitStatusOfExit == 0

\* The script runs off its last line: status 0.
ExitStatusAtEnd == 0

\* An exception nobody catches: the interpreter exits with status 1.
ExitStatusUncaught == 1

(* ------------------------------ inputs --------------------------------- *)

\* Closing prices the provider may report: a zero, and prices 0.25%, 0.5%,
\* 1% and 5% apart.
Closes == {0, 396, 398, 399, 400, 420}

\* One day's record, reduced to its "4. close" text: numeric or not.
Bars == [numeric : {TRUE}, close : Closes] \cup {[numeric |-> FALSE, close |-> 0]}

SeqsUpTo(S, n) == UNION {[1..k -> S] : k \in 0..n}

\* The "Time Series (Daily)" mapping, as its values in iteration order.
Series == SeqsUpTo(Bars, MaxBars)

None == "<null>"

\* An article is a dict: each key absent, null, or a string.
Articles ==
  { [k \in S |-> IF k = "title" THEN tv[1] ELSE tv[2]] :
      S \in SUBSET {"title", "description"},
      tv \in {None, "Tesla soars"} \X {"Shares jump"} }

ProviderLists == SeqsUpTo(Articles, MaxProvided)

(* --------------------------- pure functions ---------------------------- *)

Abs(n) == IF n < 0 THEN -n ELSE n

Min(a, b) == IF a < b THEN a ELSE b

\* Python's round() of the rational n/d (d # 0): nearest integer, ties to even.
Round(n, d) ==
  LET nn == IF d < 0 THEN -n ELSE n
      dd == IF d < 0 THEN -d ELSE d
      q  == nn \div dd
      r  == nn - q * dd
  IN  IF 2 * r < dd THEN q
      ELSE IF 2 * r > dd THEN q + 1
      ELSE IF q % 2 = 0 THEN q ELSE q + 1

DirectionReversed(difference) == IF difference < 0 THEN Up ELSE Down

\* line 63
Direction(difference) == IF difference > 0 THEN Up ELSE Down

\* calculate_price_difference: the exception it raises, or the tuple it returns.
calculate_price_difference(data) ==
  IF Len(data) < 1 THEN [raises |-> "IndexError", value |-> <<>>]
  ELSE IF ~data[1].numeric THEN [raises |-> "ValueError", value |-> <<>>]
  ELSE IF Len(data) < 2 THEN [raises |-> "IndexError", value |-> <<>>]
  ELSE IF ~data[2].numeric THEN [raises |-> "ValueError", value |-> <<>>]
  ELSE LET yesterday_closing_price == data[1].close
           day_before_yesterday_closing_price == data[2].close
           difference == yesterday_closing_price - day_before_yesterday_closing_price
       IN  IF yesterday_closing_price = 0
           THEN [raises |-> "ZeroDivisionError", value |-> <<>>]
           ELSE [raises |-> "none",
                 value  |-> << Round(100 * difference, yesterday_closing_price),
                               Direction(difference) >>]

SignificantInclusive(percent) == Abs(percent) >= PERCENTAGE_THRESHOLD

\* line 153
Significant(percent) == Abs(percent) > PERCENTAGE_THRESHOLD

TruncateOffByOne(list, n) == SubSeq(list, 1, Min(Len(list), n + 1))

\* articles[:num_articles], line 93
Truncate(list, n) == SubSeq(list, 1, Min(Len(list), n))

\* dict.get(key, default)
Get(d, key, default) == IF key \in DOMAIN d THEN d[key] ELSE default

\* str() as the f-string applies it to a title or description
Str(v) == IF v = None THEN "None" ELSE v

\* line 112
Message(article, stock_symbol, diff_percent, up_down_emoji) ==
  LET headline == Get(article, "title", HeadlinePlaceholder)
      brief    == Get(article, "description", BriefPlaceholder)
  IN  stock_symbol \o ": " \o up_down_emoji \o ToString(diff_percent)
        \o "%\nManchete: " \o Str(headline) \o ". \nResumo: " \o Str(brief)

format_news_articles_skipping(arts, stock_symbol, diff_percent, up_down_emoji) ==
  LET HasBrief(a) == "description" \in DOMAIN a
      kept == SelectSeq(arts, HasBrief)
  IN  [i \in 1..Len(kept) |-> Message(kept[i], stock_symbol, diff_percent, up_down_emoji)]

\* lines 108-114
format_news_articles(arts, stock_symbol, diff_percent, up_down_emoji) ==
  [i \in 1..Len(arts) |-> Message(arts[i], stock_symbol, diff_percent, up_down_emoji)]

NextIndexAbortOnFailure(i, n, ok) == IF ok THEN i + 1 ELSE n + 1

\* The for loop of send_sms_messages: the except clause (lines 136-137)
\* swallows the failure and the loop goes on to the next message.
NextIndex(i, n, ok) == i + 1

(* ------------------------------- state --------------------------------- *)

VARIABLES
  pc,                 \* the orchestrator's position
  stock_data,         \* the fetched series (<<>> before the fetch)
  result,             \* <<>> or <<diff_percent, up_down>>
  articles,           \* the kept articles
  provided,           \* how many articles the news provider returned
  formatted_messages, \* the text blocks
  sendLog,            \* one entry per client.messages.create call
  output,             \* what the run printed, in order
  uncaught,           \* <<>> or <<function, exception>> that ended the run
  exitStatus,         \* <<>> while running, <<status>> once the process ended
  newsCalls           \* calls made to the news provider

vars == << pc, stock_data, result, articles, provided, formatted_messages,
           sendLog, output, uncaught, exitStatus, newsCalls >>

diff_percent == result[1]

up_down == result[2]

Init ==
  /\ pc = "FetchingPrice"
  /\ stock_data = <<>>
  /\ result = <<>>
  /\ articles = <<>>
  /\ provided = 0
  /\ formatted_messages = <<>>
  /\ sendLog = <<>>
  /\ output = <<>>
  /\ uncaught = <<>>
  /\ exitStatus = <<>>
  /\ newsCalls = 0

\* An exception propagates out of the script.
Crash(function, exception) ==
  /\ pc' = "Crashed"
  /\ uncaught' = <<function, exception>>
  /\ exitStatus' = <<ExitStatusUncaught>>

(* ------------------------------ actions -------------------------------- *)

\* lines 143-147, get_stock_data returns the series
FetchPriceReturns ==
  /\ pc = "FetchingPrice"
  /\ \E data \in Series : stock_data' = data
  /\ pc' = "ComputingChange"
  /\ UNCHANGED << result, articles, provided, formatted_messages, sendLog,
                  output, uncaught, exitStatus, newsCalls >>

\* lines 43-44 raise a RequestException; lines 145-147 report it and exit()
FetchPriceRequestException ==
  /\ pc = "FetchingPrice"
  /\ output' = Append(output, "Erro ao obter dados da acao")
  /\ pc' = "Aborted"
  /\ exitStatus' = <<ExitStatusOfExit>>
  /\ UNCHANGED << stock_data, result, articles, provided, formatted_messages,
                  sendLog, uncaught, newsCalls >>

\* line 45: the body has no "Time Series (Daily)" key; KeyError is not a
\* RequestException, so the handler of line 145 does not catch it
FetchPriceKeyError ==
  /\ pc = "FetchingPrice"
  /\ Crash("get_stock_data", "KeyError")
  /\ UNCHANGED << stock_data, result, articles, provided, formatted_messages,
                  sendLog, output, newsCalls >>

\* line 150
ComputeChange ==
  /\ pc = "ComputingChange"
  /\ LET r == calculate_price_difference(stock_data)
     IN  IF r.raises = "none"
         THEN /\ result' = r.value
              /\ pc' = "ThresholdCheck"
              /\ UNCHANGED << uncaught, exitStatus >>
         ELSE /\ Crash("calculate_price_difference", r.raises)
              /\ UNCHANGED result
  /\ UNCHANGED << stock_data, articles, provided, formatted_messages, sendLog,
                  output, newsCalls >>

\* lines 153, 168-169
ThresholdGate ==
  /\ pc = "ThresholdCheck"
  /\ IF Significant(diff_percent)
     THEN /\ pc' = "FetchingNews"
          /\ UNCHANGED << output, exitStatus >>
     ELSE /\ output' = Append(output, "Variacao de preco nao atingiu o limiar")
          /\ pc' = "Done"
          /\ exitStatus' = <<ExitStatusAtEnd>>
  /\ UNCHANGED << stock_data, result, articles, provided, formatted_messages,
                  sendLog, uncaught, newsCalls >>

\* The branch of lines 160-167 on the kept articles.
AfterNews(kept, printed) ==
  IF kept # <<>>
  THEN /\ pc' = "Formatting"
       /\ output' = printed
       /\ UNCHANGED exitStatus
  ELSE /\ output' = Append(printed, "Nenhum artigo de noticia relevante encontrado")
       /\ pc' = "Done"
       /\ exitStatus' = <<ExitStatusAtEnd>>

\* lines 155, 160-167: get_news_articles returns the truncated list
FetchNewsReturns ==
  /\ pc = "FetchingNews"
  /\ newsCalls' = newsCalls + 1
  /\ \E list \in ProviderLists :
       /\ provided' = Len(list)
       /\ articles' = Truncate(list, num_articles)
       /\ AfterNews(articles', output)
  /\ UNCHANGED << stock_data, result, formatted_messages, sendLog, uncaught >>

\* lines 90-91 raise a RequestException; lines 156-158 report it and go on
\* with an empty list
FetchNewsRequestException ==
  /\ pc = "FetchingNews"
  /\ newsCalls' = newsCalls + 1
  /\ articles' = <<>>
  /\ AfterNews(articles', Append(output, "Erro ao obter noticias"))
  /\ UNCHANGED << stock_data, result, provided, formatted_messages, sendLog,
                  uncaught >>

\* line 92: the body has no "articles" key; the KeyError is not caught
FetchNewsKeyError ==
  /\ pc = "FetchingNews"
  /\ newsCalls' = newsCalls + 1
  /\ Crash("get_news_articles", "KeyError")
  /\ UNCHANGED << stock_data, result, articles, provided, formatted_messages,
                  sendLog, output >>

\* line 162
Format ==
  /\ pc = "Formatting"
  /\ formatted_messages' =
       format_news_articles(articles, STOCK_NAME, diff_percent, up_down)
  /\ pc' = "Notifying"
  /\ UNCHANGED << stock_data, result, articles, provided, sendLog, output,
                  uncaught, exitStatus, newsCalls >>

\* The loop variable of line 128, kept with the iteration it is in.
LoopIndex == IF sendLog = <<>> THEN 1 ELSE sendLog[Len(sendLog)].next

\* line 165, one iteration of the loop of lines 128-137: the send is
\* attempted and either returns a status or raises
Send(ok) ==
  /\ pc = "Notifying"
  /\ LET i == LoopIndex
         n == Len(formatted_messages)
         j == NextIndex(i, n, ok)
     IN  /\ i <= n
         /\ sendLog' = Append(sendLog,
              [index |-> i, body |-> formatted_messages[i], ok |-> ok, next |-> j])
         /\ output' = Append(output,
              IF ok THEN "Mensagem SMS enviada com status"
                    ELSE "Erro ao enviar SMS")
         /\ IF j <= n
            THEN /\ pc' = "Notifying"
                 /\ UNCHANGED exitStatus
            ELSE /\ pc' = "Done"
                 /\ exitStatus' = <<ExitStatusAtEnd>>
  /\ UNCHANGED << stock_data, result, articles, provided, formatted_messages,
                  uncaught, newsCalls >>

SendReturns == Send(TRUE)

SendRaises == Send(FALSE)

Next ==
  \/ FetchPriceReturns
  \/ FetchPriceRequestException
  \/ FetchPriceKeyError
  \/ ComputeChange
  \/ ThresholdGate
  \/ FetchNewsReturns
  \/ FetchNewsRequestException
  \/ FetchNewsKeyError
  \/ Format
  \/ SendReturns
  \/ SendRaises

Spec == Init /\ [][Next]_vars

(* ------------------------- shorthand for claims ------------------------ *)

NoChangeReport == "Variacao de preco nao atingiu o limiar"

NoArticlesReport == "Nenhum artigo de noticia relevante encontrado"

Last(s) == s[Len(s)]

Count(s, x) == Cardinality({i \in 1..Len(s) : s[i] = x})

RunEnded == exitStatus # <<>>

PriceFetchFailed ==
  \/ pc = "Aborted"
  \/ uncaught # <<>> /\ uncaught[1] = "get_stock_data"

NewsFetchFailed ==
  \/ Count(output, "Erro ao obter noticias") > 0
  \/ uncaught # <<>> /\ uncaught[1] = "get_news_articles"

(* -------------------------------- C1 ----------------------------------- *)

\* C1: when the computed percent has abs(percent) <= 1 (equality included)
\* the run goes from the gate straight to Done with the "no significant
\* change" report as its only output, the news provider is never called and
\* no send is attempted; the news provider is called only when
\* abs(percent) > 1.
C1_ThresholdGate ==
  /\ (result # <<>> /\ Abs(diff_percent) <= 1) =>
        /\ newsCalls = 0
        /\ sendLog = <<>>
        /\ pc \in {"ThresholdCheck", "Done"}
        /\ pc = "Done" => output = <<NoChangeReport>>
  /\ newsCalls > 0 => (result # <<>> /\ Abs(diff_percent) > 1)

\* The boundary: percent = 1 exactly, and the run is over.
C1_Witness ==
  /\ pc = "Done"
  /\ result = <<1, Up>>
  /\ output = <<NoChangeReport>>

(* -------------------------------- C2 ----------------------------------- *)

\* C2: whenever the price fetch fails, by a transport/HTTP failure or by a
\* response without the series key, the run is in Aborted with the error
\* report, and no change was computed, no news fetched and no message sent.
C2_PriceFetchFailureAborts ==
  PriceFetchFailed =>
    /\ pc = "Aborted"
    /\ output = <<"Erro ao obter dados da acao">>
    /\ result = <<>>
    /\ newsCalls = 0
    /\ sendLog = <<>>

(* -------------------------------- C3 ----------------------------------- *)

\* C3: whenever the news fetch fails, the failure is not propagated, the
\* article list is empty, no message is sent and the run is at Done with
\* the "no relevant articles" report.
C3_NewsFetchFailureDegrades ==
  NewsFetchFailed =>
    /\ uncaught = <<>>
    /\ articles = <<>>
    /\ sendLog = <<>>
    /\ pc = "Done"
    /\ Last(output) = NoArticlesReport

(* -------------------------------- C4 ----------------------------------- *)

\* C4: the Notifier attempts the messages in input order, each exactly once
\* (the k-th attempt is for message k, with its body), whichever sends fail;
\* every failed send is reported once, none is retried, and when the
\* Notifier is through every message has been attempted.
C4_NotifierAttemptsAll ==
  /\ Len(sendLog) <= Len(formatted_messages)
  /\ \A k \in 1..Len(sendLog) :
       /\ sendLog[k].index = k
       /\ sendLog[k].body = formatted_messages[k]
  /\ Count(output, "Erro ao enviar SMS")
       = Cardinality({k \in 1..Len(sendLog) : ~sendLog[k].ok})
  /\ Count(output, "Mensagem SMS enviada com status")
       = Cardinality({k \in 1..Len(sendLog) : sendLog[k].ok})
  /\ (pc = "Done" /\ formatted_messages # <<>>) =>
        Len(sendLog) = Len(formatted_messages)

\* Three messages, the 2nd send failed, the 1st and 3rd were made.
C4_Witness ==
  /\ pc = "Done"
  /\ Len(formatted_messages) = 3
  /\ Len(sendLog) = 3
  /\ sendLog[1].ok /\ ~sendLog[2].ok /\ sendLog[3].ok

(* -------------------------------- C5 ----------------------------------- *)

\* C5: a run ends only in Done or Aborted, and Aborted only by a failed
\* price fetch (nothing computed, fetched or sent).
C5_EndsDoneOrAborted ==
  /\ RunEnded => pc \in {"Done", "Aborted"}
  /\ pc = "Aborted" => (stock_data = <<>> /\ result = <<>> /\ newsCalls = 0)

(* -------------------------------- C6 ----------------------------------- *)

\* C6 as stated: whenever the Change Calculator returned, percent > 0
\* exactly when direction is Up and percent <= 0 exactly when it is Down.
C6_SignMatchesDirection ==
  result # <<>> =>
    /\ (diff_percent > 0) <=> (up_down = Up)
    /\ (diff_percent <= 0) <=> (up_down = Down)

\* C6 amended: direction is Up exactly when close[0] > close[1]; with a
\* positive most-recent close percent and direction never disagree in sign
\* (percent > 0 only with Up, percent < 0 only with Down), while percent = 0
\* goes with either direction.
C6_SignNeverOpposesDirection ==
  result # <<>> =>
    /\ up_down \in {Up, Down}
    /\ (up_down = Up) <=> (stock_data[1].close > stock_data[2].close)
    /\ stock_data[1].close > 0 =>
         /\ diff_percent > 0 => up_down = Up
         /\ diff_percent < 0 => up_down = Down

\* A rise of a quarter of a percent: percent rounds to 0, direction is Up.
C6_Witness ==
  /\ result = <<0, Up>>
  /\ stock_data[1].close = 400
  /\ stock_data[2].close = 399

(* -------------------------------- C7 ----------------------------------- *)

\* C7: a fetched series with fewer than 2 entries never reaches the Change
\* Calculator (the Price Fetcher rejects it).
C7_ShortSeriesRejected ==
  pc = "ComputingChange" => Len(stock_data) >= 2

(* -------------------------------- C8 ----------------------------------- *)

\* The block the claim describes for one article.
C8_Block(a) ==
  "TSLA: " \o up_down \o ToString(diff_percent)
    \o "%\nManchete: "
    \o (IF "title" \in DOMAIN a
        THEN (IF a["title"] = None THEN "None" ELSE a["title"])
        ELSE "Titulo nao disponivel")
    \o ". \nResumo: "
    \o (IF "description" \in DOMAIN a
        THEN (IF a["description"] = None THEN "None" ELSE a["description"])
        ELSE "Descricao nao disponivel")

C9_AbortExitStatusDiffers ==
  /\ pc = "Done" => exitStatus = <<ExitStatusAtEnd>>
  /\ pc = "Aborted" => exitStatus # <<ExitStatusAtEnd>>

(* -------------------------------- C10 ---------------------------------- *)

\* C10: past the gate, the articles kept are the first min(k, 3) of the k
\* the provider returned, there are never more than 3 send attempts, a run
\* at Done has made exactly min(k, 3) of them, and with nothing kept it is
\* at Done with the "no relevant articles" report and no attempt.
C10_SendsEqualKeptArticles ==
  /\ Len(articles) = Min(provided, 3)
  /\ Len(sendLog) <= 3
  /\ (pc = "Done" /\ newsCalls > 0) =>
        /\ Len(sendLog) = Min(provided, 3)
        /\ Len(sendLog) = Len(articles)
  /\ (newsCalls > 0 /\ uncaught = <<>> /\ articles = <<>>) =>
        /\ pc = "Done"
        /\ sendLog = <<>>
        /\ Last(output) = NoArticlesReport

\* The provider returned 4 articles and exactly 3 sends were attempted.
C10_Witness ==
  /\ pc = "Done"
  /\ provided = 4
  /\ Len(sendLog) = 3

=============================================================================
